---- MODULE Spec2Model ----
(***************************************************************************)
(* Model of the two inference services of QuantaGem:                       *)
(*   docling-service/main.py  (POST /convert,    GET /ping)                *)
(*   stt-service/main.py      (POST /transcribe, GET /ping)                *)
(* One process of one service is modelled at a time (variable service).    *)
(* The process has an event-loop thread that runs the async handlers, a    *)
(* loader thread started at startup, and (docling only) worker threads     *)
(* entered through asyncio.to_thread.                                      *)
(***************************************************************************)
EXTENDS Integers, Sequences, FiniteSets, TLC

\* ---------------------------------------------------------------- bounds
NumReqs == 2
MaxPings == 2

Reqs == 1..NumReqs
\* Temporary names: enough of them that a free one always exists.
Paths == 1..(NumReqs + 1)

Services == {"docling", "stt"}

\* file_data strings of /convert, as sequences of characters:
\* "A" a base64 alphabet character, "=" the pad, "!" a character outside
\* the alphabet.
FileDatas ==
  { <<>>,
    <<"A", "A", "=", "=">>,
    <<"A", "A", "A">>,
    <<"!", "!", "!", "!">> }

ContentTypes == {"audio", "other"}

VARIABLES service, started, loader, model, event, loop, reqs, disk, pings

vars == <<service, started, loader, model, event, loop, reqs, disk, pings>>

\* ------------------------------------------------------- pure functions

\* binascii.a2b_base64 in its default non-strict mode, as base64.b64decode
\* calls it: the number of decoded bytes, or -1 when it raises.
RECURSIVE A2bBase64(_, _, _, _, _)
A2bBase64(s, i, quad, pads, n) ==
  IF i > Len(s)
  THEN (IF quad # 0 THEN -1 ELSE n)
  ELSE IF s[i] = "="
  THEN (IF quad >= 2 /\ quad + pads + 1 >= 4
        THEN n
        ELSE A2bBase64(s, i + 1, quad, (IF quad >= 2 THEN pads + 1 ELSE pads), n))
  ELSE IF s[i] # "A"
  THEN A2bBase64(s, i + 1, quad, pads, n)
  ELSE A2bBase64(s, i + 1, (quad + 1) % 4, 0, (IF quad = 0 THEN n ELSE n + 1))

B64Decode(s) == A2bBase64(s, 1, 0, 0, 0)

\* Texts are sequences of characters: " " whitespace, "a" any other one.
\* str.strip()
RECURSIVE LStrip(_)
LStrip(t) ==
  IF t = <<>> THEN <<>>
  ELSE IF Head(t) = " " THEN LStrip(Tail(t)) ELSE t

RECURSIVE RStrip(_)
RStrip(t) ==
  IF t = <<>> THEN <<>>
  ELSE IF t[Len(t)] = " " THEN RStrip(SubSeq(t, 1, Len(t) - 1)) ELSE t

Strip(t) == RStrip(LStrip(t))

\* " ".join(ts)
RECURSIVE JoinSpace(_)
JoinSpace(ts) ==
  IF ts = <<>> THEN <<>>
  ELSE IF Len(ts) = 1 THEN ts[1]
  ELSE ts[1] \o <<" ">> \o JoinSpace(Tail(ts))

\* What export_to_markdown may return: a string (kind "str", the text v[1]).
ConvertResults ==
  { [kind |-> "str", v |-> <<t>>] : t \in { <<"a">>, <<" ", "a", " ">> } }

\* What model.recognize may return: a string, a list of objects with a
\* text attribute, a list of strings, an empty list, None.
RecognizeResults ==
  { [kind |-> "str", v |-> << <<" ", "a", " ">> >>],
    [kind |-> "texts", v |-> << <<"a">>, <<"a", " ">> >>],
    [kind |-> "strs", v |-> << <<" ", "a">> >>],
    [kind |-> "emptylist", v |-> <<>>],
    [kind |-> "None", v |-> <<>>] }

\* The body of the 200 answer of /convert: markdown_content as the worker
\* returned it (line 118).
ConvertBody(result) == result.v[1]

\* The body of the 200 answer of /transcribe, lines 100-111; a falsy
\* transcription (None, "") gives "".
TranscribeBody(result) ==
  IF result.kind = "None" \/ result.kind = "emptylist" THEN <<>>
  ELSE LET transcription ==
             IF result.kind = "texts" THEN JoinSpace(result.v) ELSE result.v[1]
       IN IF transcription = <<>> THEN <<>> ELSE Strip(transcription)

\* The gate test of both POST handlers.
GateOpen == event /\ model # "None"

\* A ping that tests the handle instead of the event.
PingCode_TestsHandle == IF model # "None" THEN 200 ELSE 503

\* The status GET /ping answers with.
PingCode == IF event THEN 200 ELSE 503

\* What a model call gave: kind "nocall" before it has ended, "raise" when
\* it raised, else the kind of the value returned, with the texts in v.
NoCall == [kind |-> "nocall", v |-> <<>>]
Raised == [kind |-> "raise", v |-> <<>>]

\* The messages of the exceptions, str(e).
ModelError == "model error"
WriteError == "write error"
FfmpegError == "FFmpeg conversion failed: stderr"

\* detail of the 500 answer of /convert (line 125) and of /transcribe
\* (line 115).
ConvertErrorDetail(msg) == <<"PDF conversion failed: ", msg>>
TranscribeErrorDetail(msg) == <<msg>>
\* The answer of the framework to an exception that left the handler.
UnhandledDetail == <<"Internal Server Error">>

\* A request: its position, its input, the handler's locals (path, wav,
\* result), the response (resp, detail of a 500, body of a 200; body is
\* <<>> or <<text>>) and a record of what the handler did.
NewReq ==
  [pc |-> "new", fileData |-> <<>>, contentType |-> "none", gate |-> "none",
   loadFailed |-> FALSE, resp |-> 0, path |-> 0, wav |-> 0, staged |-> 0,
   modelCalls |-> 0, ffmpegCalls |-> 0, ffmpegRc |-> "none",
   writeFailed |-> FALSE, escaped |-> FALSE, handle |-> "None",
   result |-> NoCall, detail |-> <<>>, body |-> <<>>, responses |-> 0]

\* The handler returns (or raises HTTPException) with this status; its
\* local variables are gone.
Respond(rec, code) ==
  [rec EXCEPT !.pc = "done", !.resp = code, !.path = 0, !.wav = 0,
              !.responses = @ + 1]

\* Request identifiers are given in the order of arrival.
Arrives(r) == reqs[r].pc = "new" /\ \A q \in Reqs : q < r => reqs[q].pc # "new"

\* os.path.exists(p)
OsPathExists(d, p) == d[p] # 0

\* os.remove(p): the disk afterwards; it raises FileNotFoundError when no
\* file is there.
OsRemove(d, p) ==
  IF d[p] = 0
  THEN [disk |-> d, raised |-> TRUE]
  ELSE [disk |-> [d EXCEPT ![p] = 0], raised |-> FALSE]

\* A release that removes without asking whether the file exists.
Release_NoExistsCheck(d, p) == OsRemove(d, p)

\* The release of one path in the finally clauses:
\* if os.path.exists(path): os.remove(path)
Release(d, p) ==
  IF OsPathExists(d, p) THEN OsRemove(d, p) ELSE [disk |-> d, raised |-> FALSE]

\* The release of every path of ps (0: no path).
RemoveIfExists(d, ps) ==
  [p \in Paths |-> IF p \in ps THEN Release(d, p).disk[p] ELSE d[p]]

\* The paths the finally block of /convert releases.
ConvertCleanupPaths(rec) == IF rec.path # 0 THEN {rec.path} ELSE {}

\* A finally block of /transcribe that forgets the converted file.
TranscribeCleanupPaths_InputOnly(rec) == {rec.path} \ {0}

\* The paths the finally block of /transcribe releases.
TranscribeCleanupPaths(rec) == {rec.path, rec.wav} \ {0}

\* Temporary names chosen without regard to the files that exist.
FreePaths_AnyName == Paths

\* The names NamedTemporaryFile and mktemp may give: those of no existing file.
FreePaths == {p \in Paths : disk[p] = 0}

\* The name drawn among the names S: names are only ever compared for
\* equality, so the least one stands for whichever the library draws.
NewName(S) == {p \in S : \A q \in S : p <= q}

\* ----------------------------------------------------------------- Init
Init ==
  /\ service \in Services
  /\ started = FALSE
  /\ loader = "idle"
  /\ model = "None"
  /\ event = FALSE
  /\ loop = 0
  /\ reqs = [r \in Reqs |-> NewReq]
  /\ disk = [p \in Paths |-> 0]
  /\ pings = <<>>

\* ------------------------------------------------------ startup, loader

\* A startup that does not complete while the model is being constructed.
Startup_WaitsForLoad ==
  /\ ~started
  /\ loader = "idle"
  /\ loader' = "constructing"
  /\ UNCHANGED <<service, started, model, event, loop, reqs, disk, pings>>

\* startup_event: starts the daemon loader thread and returns.
Startup ==
  /\ ~started
  /\ started' = TRUE
  /\ loader' = "constructing"
  /\ UNCHANGED <<service, model, event, loop, reqs, disk, pings>>

\* The loader with the event set before the handle is stored.
LoaderConstructOk_EventFirst ==
  /\ loader = "constructing"
  /\ event' = TRUE
  /\ loader' = "constructed"
  /\ UNCHANGED <<service, started, model, loop, reqs, disk, pings>>

\* The constructor returned: the global handle is assigned.
LoaderConstructOk ==
  /\ loader = "constructing"
  /\ model' = "handle"
  /\ loader' = "constructed"
  /\ UNCHANGED <<service, started, event, loop, reqs, disk, pings>>

\* The loader with the event set on the failure path as well (a finally).
LoaderConstructFail_SetsEvent ==
  /\ loader = "constructing"
  /\ loader' = "failed"
  /\ event' = TRUE
  /\ UNCHANGED <<service, started, model, loop, reqs, disk, pings>>

\* The constructor raised: docling logs and returns, stt logs and re-raises
\* inside the loader thread, which ends; the event is left unset.
LoaderConstructFail ==
  /\ loader = "constructing"
  /\ loader' = "failed"
  /\ UNCHANGED <<service, started, model, event, loop, reqs, disk, pings>>

\* converter_loaded_event.set() / model_loaded_event.set()
LoaderSetEvent ==
  /\ loader = "constructed"
  /\ event' = TRUE
  /\ loader' = "done"
  /\ UNCHANGED <<service, started, model, loop, reqs, disk, pings>>

\* ------------------------------------------------------------ GET /ping

\* A ping that starts the loader again once a load has failed.
Ping_RestartsLoader ==
  /\ started
  /\ loop = 0
  /\ Len(pings) < MaxPings
  /\ pings' = Append(pings, [code |-> PingCode,
                             loadFailed |-> (loader = "failed"),
                             loading |-> (loader = "constructing")])
  /\ loader' = IF loader = "failed" THEN "constructing" ELSE loader
  /\ UNCHANGED <<service, started, model, event, loop, reqs, disk>>

\* ping: 200 when the event is set, else 503.
Ping ==
  /\ started
  /\ loop = 0
  /\ Len(pings) < MaxPings
  /\ pings' = Append(pings, [code |-> PingCode,
                             loadFailed |-> (loader = "failed"),
                             loading |-> (loader = "constructing")])
  /\ UNCHANGED <<service, started, loader, model, event, loop, reqs, disk>>

\* -------------------------------------------------------- POST /convert

\* Lines 79-97 with the gate test after the staging of the input file.
ConvertBegin_StageBeforeGate(r, fd) ==
  /\ service = "docling"
  /\ started
  /\ loop = 0
  /\ Arrives(r)
  /\ LET rec == [reqs[r] EXCEPT !.fileData = fd, !.loadFailed = (loader = "failed"),
                                !.gate = IF GateOpen THEN "open" ELSE "closed"]
     IN IF ~GateOpen
        THEN \E p \in NewName(FreePaths) :
               /\ disk' = [disk EXCEPT ![p] = r]
               /\ reqs' = [reqs EXCEPT ![r] =
                             Respond([rec EXCEPT !.staged = 1], 503)]
               /\ loop' = 0
        ELSE /\ disk' = disk
             /\ reqs' = [reqs EXCEPT ![r] =
                   IF fd = <<>> THEN Respond(rec, 400)
                   ELSE IF B64Decode(fd) = -1 THEN Respond(rec, 400)
                   ELSE [rec EXCEPT !.pc = "staging"]]
             /\ loop' = IF reqs'[r].pc = "staging" THEN r ELSE 0
  /\ UNCHANGED <<service, started, loader, model, event, pings>>

\* convert_pdf_to_markdown, lines 79-97: the gate test, the test for an
\* empty file_data and base64.b64decode; the coroutine keeps the event loop
\* when it goes on to stage the file.
ConvertBegin(r, fd) ==
  /\ service = "docling"
  /\ started
  /\ loop = 0
  /\ Arrives(r)
  /\ LET rec == [reqs[r] EXCEPT !.fileData = fd, !.loadFailed = (loader = "failed"),
                                !.gate = IF GateOpen THEN "open" ELSE "closed"]
     IN reqs' = [reqs EXCEPT ![r] =
                   IF ~GateOpen THEN Respond(rec, 503)
                   ELSE IF fd = <<>> THEN Respond(rec, 400)
                   ELSE IF B64Decode(fd) = -1 THEN Respond(rec, 400)
                   ELSE [rec EXCEPT !.pc = "staging"]]
  /\ loop' = IF reqs'[r].pc = "staging" THEN r ELSE 0
  /\ UNCHANGED <<service, started, loader, model, event, disk, pings>>

\* Lines 99-116 with the conversion started but not awaited: the finally
\* clause removes the staged file as soon as the call is dispatched.
ConvertStageOk_NoAwait(r) ==
  /\ service = "docling"
  /\ loop = r
  /\ reqs[r].pc = "staging"
  /\ \E p \in NewName(FreePaths) :
       /\ disk' = RemoveIfExists([disk EXCEPT ![p] = r], {p})
       /\ reqs' = [reqs EXCEPT ![r] =
                     [@ EXCEPT !.pc = "converting", !.path = p,
                               !.staged = @ + 1, !.modelCalls = @ + 1,
                               !.handle = model]]
  /\ loop' = 0
  /\ UNCHANGED <<service, started, loader, model, event, pings>>

\* Lines 99-103 and 116: NamedTemporaryFile(delete=False) creates the file,
\* write succeeds, temp_pdf_path is assigned, and do_conversion is handed to
\* asyncio.to_thread; the coroutine awaits and the event loop is free.
ConvertStageOk(r) ==
  /\ service = "docling"
  /\ loop = r
  /\ reqs[r].pc = "staging"
  /\ \E p \in NewName(FreePaths) :
       /\ disk' = [disk EXCEPT ![p] = r]
       /\ reqs' = [reqs EXCEPT ![r] =
                     [@ EXCEPT !.pc = "converting", !.path = p,
                               !.staged = @ + 1, !.modelCalls = @ + 1,
                               !.handle = model]]
  /\ loop' = 0
  /\ UNCHANGED <<service, started, loader, model, event, pings>>

\* Lines 101-102 when temp_pdf.write raises (for example a full disk): the
\* file exists, temp_pdf_path is still None, the except clause answers 500
\* and the finally clause has no path to remove.
ConvertStageWriteFails(r) ==
  /\ service = "docling"
  /\ loop = r
  /\ reqs[r].pc = "staging"
  /\ \E p \in NewName(FreePaths) :
       LET rec == [reqs[r] EXCEPT !.staged = @ + 1, !.writeFailed = TRUE,
                                  !.detail = ConvertErrorDetail(WriteError)]
       IN /\ disk' = RemoveIfExists([disk EXCEPT ![p] = r], ConvertCleanupPaths(rec))
          /\ reqs' = [reqs EXCEPT ![r] = Respond(rec, 500)]
  /\ loop' = 0
  /\ UNCHANGED <<service, started, loader, model, event, pings>>

\* do_conversion that calls converter.convert a second time when the first
\* call raised.
ConvertWorker_Retries(r) ==
  /\ service = "docling"
  /\ reqs[r].pc = "converting"
  /\ \E out \in ConvertResults \cup {Raised} :
       reqs' = [reqs EXCEPT ![r] =
                  IF out = Raised /\ reqs[r].modelCalls < 2
                  THEN [@ EXCEPT !.modelCalls = @ + 1]
                  ELSE [@ EXCEPT !.pc = IF out = Raised THEN "raised"
                                        ELSE "converted",
                                 !.result = out]]
  /\ UNCHANGED <<service, started, loader, model, event, loop, disk, pings>>

\* do_conversion on the worker thread, lines 106-114: converter.convert and
\* export_to_markdown return the markdown, or raise.
ConvertWorker(r) ==
  /\ service = "docling"
  /\ reqs[r].pc = "converting"
  /\ \E out \in ConvertResults \cup {Raised} :
       reqs' = [reqs EXCEPT ![r] =
                  [@ EXCEPT !.pc = IF out = Raised THEN "raised" ELSE "converted",
                            !.result = out]]
  /\ UNCHANGED <<service, started, loader, model, event, loop, disk, pings>>

\* Lines 116-126: the answer of the resumed coroutine, 200 with the
\* markdown or 500 with the message of the exception.
ConvertAnswer(rec) ==
  IF rec.pc = "converted"
  THEN Respond([rec EXCEPT !.body = <<ConvertBody(rec.result)>>], 200)
  ELSE Respond([rec EXCEPT !.detail = ConvertErrorDetail(ModelError)], 500)

\* Lines 116-129 with the readiness event cleared when the conversion failed.
ConvertResume_ClearsEvent(r) ==
  /\ service = "docling"
  /\ loop = 0
  /\ reqs[r].pc \in {"converted", "raised"}
  /\ reqs' = [reqs EXCEPT ![r] = ConvertAnswer(@)]
  /\ disk' = RemoveIfExists(disk, ConvertCleanupPaths(reqs[r]))
  /\ event' = IF reqs[r].pc = "raised" THEN FALSE ELSE event
  /\ UNCHANGED <<service, started, loader, model, loop, pings>>

\* Lines 116-129 with the conversion dispatched again when it has raised.
ConvertResume_RedispatchesOnFailure(r) ==
  /\ service = "docling"
  /\ loop = 0
  /\ reqs[r].pc \in {"converted", "raised"}
  /\ IF reqs[r].pc = "raised"
     THEN /\ reqs' = [reqs EXCEPT ![r] = [@ EXCEPT !.pc = "converting"]]
          /\ disk' = disk
     ELSE /\ reqs' = [reqs EXCEPT ![r] = ConvertAnswer(@)]
          /\ disk' = RemoveIfExists(disk, ConvertCleanupPaths(reqs[r]))
  /\ UNCHANGED <<service, started, loader, model, event, loop, pings>>

\* Lines 116-129: the coroutine resumes on the event loop with the worker's
\* result or exception, answers 200 or 500, and the finally clause removes
\* the staged file. No await follows: one turn of the event loop.
ConvertResume(r) ==
  /\ service = "docling"
  /\ loop = 0
  /\ reqs[r].pc \in {"converted", "raised"}
  /\ reqs' = [reqs EXCEPT ![r] = ConvertAnswer(@)]
  /\ disk' = RemoveIfExists(disk, ConvertCleanupPaths(reqs[r]))
  /\ UNCHANGED <<service, started, loader, model, event, loop, pings>>

\* ----------------------------------------------------- POST /transcribe

\* transcribe_audio, lines 77-81: the gate test. Nothing in the handler
\* reads the upload's content type.
TranscribeBegin(r, ct) ==
  /\ service = "stt"
  /\ started
  /\ loop = 0
  /\ Arrives(r)
  /\ LET rec == [reqs[r] EXCEPT !.contentType = ct, !.loadFailed = (loader = "failed"),
                                !.gate = IF GateOpen THEN "open" ELSE "closed"]
     IN reqs' = [reqs EXCEPT ![r] =
                   IF ~GateOpen THEN Respond(rec, 503)
                   ELSE [rec EXCEPT !.pc = "staging"]]
  /\ loop' = IF reqs'[r].pc = "staging" THEN r ELSE 0
  /\ UNCHANGED <<service, started, loader, model, event, disk, pings>>

\* Lines 84-94: the upload is copied into a new NamedTemporaryFile,
\* tempfile.mktemp names a .wav path that does not exist, and
\* convert_audio_to_wav starts ffmpeg with subprocess.run, in the coroutine.
TranscribeStageOk(r) ==
  /\ service = "stt"
  /\ loop = r
  /\ reqs[r].pc = "staging"
  /\ \E p \in NewName(FreePaths) :
       \E q \in NewName(FreePaths \ {p}) :
         /\ disk' = [disk EXCEPT ![p] = r]
         /\ reqs' = [reqs EXCEPT ![r] =
                       [@ EXCEPT !.pc = "ffmpeg", !.path = p, !.wav = q,
                                 !.staged = @ + 1, !.ffmpegCalls = @ + 1]]
  /\ UNCHANGED <<service, started, loader, model, event, loop, pings>>

\* Lines 85-86 when shutil.copyfileobj raises: the with statement is outside
\* the try, so the exception leaves the handler (the framework answers 500)
\* and the file created with delete=False stays.
TranscribeStageCopyFails(r) ==
  /\ service = "stt"
  /\ loop = r
  /\ reqs[r].pc = "staging"
  /\ \E p \in NewName(FreePaths) :
       /\ disk' = [disk EXCEPT ![p] = r]
       /\ reqs' = [reqs EXCEPT ![r] =
                     Respond([@ EXCEPT !.staged = @ + 1, !.writeFailed = TRUE,
                                       !.escaped = TRUE,
                                       !.detail = UnhandledDetail], 500)]
  /\ loop' = 0
  /\ UNCHANGED <<service, started, loader, model, event, pings>>

\* Lines 70-71 and 97: ffmpeg exits 0 having written the .wav file, and
\* model.recognize is called, in the coroutine.
TranscribeFfmpegOk(r) ==
  /\ service = "stt"
  /\ loop = r
  /\ reqs[r].pc = "ffmpeg"
  /\ disk' = [disk EXCEPT ![reqs[r].wav] = r]
  /\ reqs' = [reqs EXCEPT ![r] =
                [@ EXCEPT !.pc = "recognizing", !.ffmpegRc = "ok",
                          !.staged = @ + 1, !.modelCalls = @ + 1,
                          !.handle = model]]
  /\ UNCHANGED <<service, started, loader, model, event, loop, pings>>

\* Lines 70-72 and 113-120: ffmpeg exits non-zero, having written part of
\* the .wav file or none of it; RuntimeError, the except clause answers 500
\* and the finally clause removes the paths that exist.
TranscribeFfmpegFails(r) ==
  /\ service = "stt"
  /\ loop = r
  /\ reqs[r].pc = "ffmpeg"
  /\ \E partial \in BOOLEAN :
       LET d == IF partial THEN [disk EXCEPT ![reqs[r].wav] = r] ELSE disk
           rec == [reqs[r] EXCEPT !.ffmpegRc = "fail",
                                  !.staged = IF partial THEN @ + 1 ELSE @,
                                  !.detail = TranscribeErrorDetail(FfmpegError)]
       IN /\ disk' = RemoveIfExists(d, TranscribeCleanupPaths(rec))
          /\ reqs' = [reqs EXCEPT ![r] = Respond(rec, 500)]
  /\ loop' = 0
  /\ UNCHANGED <<service, started, loader, model, event, pings>>

\* Lines 97-120: model.recognize returns or raises; 200 or 500, then the
\* finally clause.
TranscribeRecognize(r) ==
  /\ service = "stt"
  /\ loop = r
  /\ reqs[r].pc = "recognizing"
  /\ \E out \in RecognizeResults \cup {Raised} :
       reqs' = [reqs EXCEPT ![r] =
                  IF out = Raised
                  THEN Respond([@ EXCEPT !.result = out,
                                         !.detail = TranscribeErrorDetail(ModelError)],
                               500)
                  ELSE Respond([@ EXCEPT !.result = out,
                                         !.body = <<TranscribeBody(out)>>],
                               200)]
  /\ disk' = RemoveIfExists(disk, TranscribeCleanupPaths(reqs[r]))
  /\ loop' = 0
  /\ UNCHANGED <<service, started, loader, model, event, pings>>

\* ------------------------------------------------------- specification
Next ==
  \/ Startup
  \/ LoaderConstructOk
  \/ LoaderConstructFail
  \/ LoaderSetEvent
  \/ Ping
  \/ \E r \in Reqs : \E fd \in FileDatas : ConvertBegin(r, fd)
  \/ \E r \in Reqs : ConvertStageOk(r)
  \/ \E r \in Reqs : ConvertStageWriteFails(r)
  \/ \E r \in Reqs : ConvertWorker(r)
  \/ \E r \in Reqs : ConvertResume(r)
  \/ \E r \in Reqs : \E ct \in ContentTypes : TranscribeBegin(r, ct)
  \/ \E r \in Reqs : TranscribeStageOk(r)
  \/ \E r \in Reqs : TranscribeStageCopyFails(r)
  \/ \E r \in Reqs : TranscribeFfmpegOk(r)
  \/ \E r \in Reqs : TranscribeFfmpegFails(r)
  \/ \E r \in Reqs : TranscribeRecognize(r)

Spec == Init /\ [][Next]_vars

\* A step of the handler of request r after its first one: a turn of the
\* event loop for its coroutine, or the end of its model or ffmpeg call.
HandlerStep(r) ==
  \/ ConvertStageOk(r)
  \/ ConvertStageWriteFails(r)
  \/ ConvertWorker(r)
  \/ ConvertResume(r)
  \/ TranscribeStageOk(r)
  \/ TranscribeStageCopyFails(r)
  \/ TranscribeFfmpegOk(r)
  \/ TranscribeFfmpegFails(r)
  \/ TranscribeRecognize(r)

\* The steps of the loader and of the POST handlers. GET /ping is left out:
\* it changes only the log of its own answers and never keeps the event loop.
RequestNext ==
  \/ Startup
  \/ LoaderConstructOk
  \/ LoaderConstructFail
  \/ LoaderSetEvent
  \/ \E r \in Reqs : \E fd \in FileDatas : ConvertBegin(r, fd)
  \/ \E r \in Reqs : ConvertStageOk(r)
  \/ \E r \in Reqs : ConvertStageWriteFails(r)
  \/ \E r \in Reqs : ConvertWorker(r)
  \/ \E r \in Reqs : ConvertResume(r)
  \/ \E r \in Reqs : \E ct \in ContentTypes : TranscribeBegin(r, ct)
  \/ \E r \in Reqs : TranscribeStageOk(r)
  \/ \E r \in Reqs : TranscribeStageCopyFails(r)
  \/ \E r \in Reqs : TranscribeFfmpegOk(r)
  \/ \E r \in Reqs : TranscribeFfmpegFails(r)
  \/ \E r \in Reqs : TranscribeRecognize(r)

\* The event loop runs every coroutine that is ready, and every call to the
\* model or to ffmpeg ends.
LiveSpec ==
  /\ Init
  /\ [][RequestNext]_vars
  /\ \A r \in Reqs : WF_vars(HandlerStep(r))

TypeOK ==
  /\ service \in Services
  /\ started \in BOOLEAN
  /\ loader \in {"idle", "constructing", "constructed", "done", "failed"}
  /\ model \in {"None", "handle"}
  /\ event \in BOOLEAN
  /\ loop \in 0..NumReqs
  /\ disk \in [Paths -> 0..NumReqs]
  /\ Len(pings) <= MaxPings
  /\ \A r \in Reqs : reqs[r].resp \in {0, 200, 400, 500, 503}

\* ------------------------------------------------------------- claims

\* The files on disk that request r created.
Owned(r) == {p \in Paths : disk[p] = r}

\* A model call or the ffmpeg call of request r is executing.
InFlight(r) == reqs[r].pc \in {"converting", "ffmpeg", "recognizing"}

\* RFC 4648 base64: whole quads of alphabet characters, the last quad
\* ending in at most two pads.
ValidBase64(s) ==
  /\ Len(s) % 4 = 0
  /\ \A i \in 1..Len(s) :
       \/ s[i] = "A"
       \/ s[i] = "=" /\ i = Len(s)
       \/ s[i] = "=" /\ i = Len(s) - 1 /\ s[Len(s)] = "="

\* C1: once a handler has returned, no temporary file that its request
\* created exists on disk, whatever the outcome of the request.
C1_CleanupInvariant ==
  \A r \in Reqs : reqs[r].pc = "done" => Owned(r) = {}

\* C2: while a request's blocking call (converter.convert, ffmpeg,
\* model.recognize) is in flight, that request does not occupy the event
\* loop, so a GET /ping need not wait for the call to finish.
C2_PingNotBlockedByModelCall ==
  \A r \in Reqs : InFlight(r) => loop # r

\* C3: once a GET /ping has returned 200, every later GET /ping returns 200.
C3_ReadinessMonotone ==
  \A i, j \in 1..Len(pings) :
    (i < j /\ pings[i].code = 200) => pings[j].code = 200

C3_Witness ==
  /\ Len(pings) >= 2
  /\ pings[1].code = 200
  /\ pings[2].code = 200
  /\ \E r \in Reqs : reqs[r].resp = 500

\* C4: after model construction has raised, the event is never set, every
\* GET /ping and every POST answered from then on gets 503, and the event
\* loop stays available to serve requests.
C4_FailClosedStartup ==
  /\ loader = "failed" => (~event /\ loop = 0)
  /\ \A i \in 1..Len(pings) : pings[i].loadFailed => pings[i].code = 503
  /\ \A r \in Reqs :
       (reqs[r].loadFailed /\ reqs[r].pc # "new")
         => (reqs[r].pc = "done" /\ reqs[r].resp = 503)

C4_Witness ==
  /\ service = "stt"
  /\ loader = "failed"
  /\ \E i \in 1..Len(pings) : pings[i].loadFailed /\ pings[i].code = 503
  /\ \E r \in Reqs : reqs[r].loadFailed /\ reqs[r].resp = 503

\* C5: a POST that finds the gate not ready is answered 503 and creates no
\* temporary file and makes no model call and no ffmpeg call.
C5_GateRejectionNoSideEffects ==
  \A r \in Reqs :
    reqs[r].gate = "closed" =>
      /\ reqs[r].pc = "done"
      /\ reqs[r].resp = 503
      /\ reqs[r].staged = 0
      /\ reqs[r].modelCalls = 0
      /\ reqs[r].ffmpegCalls = 0
      /\ Owned(r) = {}

C5_Witness ==
  /\ \E r \in Reqs : reqs[r].gate = "closed" /\ reqs[r].resp = 503
  /\ \E r \in Reqs : reqs[r].gate = "open" /\ reqs[r].staged > 0

\* C6: whenever the readiness event is set the model handle is non-null,
\* and every model call was dispatched on the constructed handle by a
\* request that saw the gate open.
C6_ReadyImpliesModel ==
  /\ event => model = "handle"
  /\ \A r \in Reqs :
       reqs[r].modelCalls > 0 => (reqs[r].handle = "handle" /\ reqs[r].gate = "open")

C6_Witness ==
  /\ event
  /\ \E r \in Reqs : reqs[r].modelCalls > 0 /\ InFlight(r)

\* C7: a request that failed after it acquired a temporary file has left
\* no file on disk, and its failure became the handler's own 500 response
\* (no exception escaped the handler).
C7_CleanupOnEveryExitPath ==
  \A r \in Reqs :
    (reqs[r].pc = "done" /\ reqs[r].staged > 0 /\ reqs[r].resp # 200) =>
      (Owned(r) = {} /\ ~reqs[r].escaped /\ reqs[r].resp = 500)

\* C8: a /convert request that passed the gate with an empty file_data or a
\* file_data that is not valid base64 is answered 400, and creates no
\* temporary file and dispatches no model call.
C8_ValidationFailFast ==
  \A r \in Reqs :
    (/\ service = "docling"
     /\ reqs[r].gate = "open"
     /\ (reqs[r].fileData = <<>> \/ ~ValidBase64(reqs[r].fileData))) =>
      /\ reqs[r].resp \in {0, 400}
      /\ reqs[r].staged = 0
      /\ reqs[r].modelCalls = 0

\* C9: a /transcribe upload that passed the gate with a content type that is
\* not audio is answered 400, with no file staged and no ffmpeg call.
C9_NonAudioRejected ==
  \A r \in Reqs :
    (/\ service = "stt"
     /\ reqs[r].gate = "open"
     /\ reqs[r].contentType = "other") =>
      /\ reqs[r].resp \in {0, 400}
      /\ reqs[r].staged = 0
      /\ reqs[r].ffmpegCalls = 0

\* C10: when ffmpeg fails in /transcribe the model is not invoked, the
\* answer is 500, and neither the staged upload nor a partly written .wav
\* file is left on disk when the handler returns.
C10_ConversionFailure ==
  \A r \in Reqs :
    reqs[r].ffmpegRc = "fail" =>
      /\ reqs[r].pc = "done"
      /\ reqs[r].resp = 500
      /\ reqs[r].modelCalls = 0
      /\ Owned(r) = {}

C10_Witness ==
  \E r \in Reqs :
    reqs[r].ffmpegRc = "fail" /\ reqs[r].staged = 2 /\ reqs[r].pc = "done"

Range(f) == {f[i] : i \in DOMAIN f}

\* C11: when the model call of a request raises, the model was invoked
\* exactly once for it, and the request gets exactly one response, a 500
\* whose detail carries the message of the exception, with no result body.
C11_InferenceFailureSingleShot ==
  \A r \in Reqs :
    reqs[r].result = Raised =>
      /\ reqs[r].modelCalls = 1
      /\ reqs[r].body = <<>>
      /\ \/ reqs[r].pc = "raised" /\ reqs[r].responses = 0
         \/ /\ reqs[r].pc = "done"
            /\ reqs[r].resp = 500
            /\ reqs[r].responses = 1
            /\ ModelError \in Range(reqs[r].detail)

C11_Witness ==
  \E r \in Reqs :
    reqs[r].result = Raised /\ reqs[r].pc = "done" /\ reqs[r].resp = 500

\* C12: the dispatch of model calls does not serialize requests: while the
\* model call of one request is in flight, no other unfinished request is
\* held behind it, so the calls of all staged requests can be in flight at
\* the same time.
C12_NoSerialization ==
  \A q, r \in Reqs :
    (q # r /\ InFlight(q) /\ reqs[r].pc # "done") => loop # q

\* The temporary paths the handler of request r holds.
Held(r) == {reqs[r].path, reqs[r].wav} \ {0}

\* C13: no two requests in flight hold the same temporary path, the file at
\* a path a request holds is its own, and a file disappears from disk only
\* in the step in which the handler of the request that created it returns.
C13_TransientFilesNeverShared ==
  [][ /\ \A r, q \in Reqs : r # q => (Held(r) \cap Held(q) = {})'
      /\ \A r \in Reqs : \A p \in Paths : (p \in Held(r) => disk[p] \in {0, r})'
      /\ \A p \in Paths :
           (disk[p] # 0 /\ disk'[p] = 0) =>
             (reqs[disk[p]].pc # "done" /\ reqs'[disk[p]].pc = "done")
    ]_vars

C13_Witness ==
  /\ \E r, q \in Reqs : r # q /\ Held(r) # {} /\ Held(q) # {}
  /\ \A r \in Reqs : \A p \in Held(r) : disk[p] = r

\* C14: the event and the model handle are written only by the loader, which
\* runs once: the event is only ever set, in the loader's last step; the
\* handle is assigned once, by the loader; no step of a request handler
\* changes either; and a loader that has ended, in success or in failure,
\* is never started again.
C14_OnlyLoaderWritesGate ==
  [][ /\ (event' # event) =>
           (/\ loader = "constructed" /\ loader' = "done" /\ event'
            /\ reqs' = reqs /\ pings' = pings)
      /\ (model' # model) =>
           (/\ loader = "constructing" /\ model = "None"
            /\ reqs' = reqs /\ pings' = pings)
      /\ (loader \in {"failed", "done"}) => loader' = loader
      /\ (loader' = "constructing" /\ loader # "constructing") =>
           (loader = "idle" /\ ~started)
    ]_vars

C14_Witness ==
  /\ event
  /\ model = "handle"
  /\ loader = "done"
  /\ Len(pings) > 0
  /\ \E r \in Reqs : reqs[r].pc = "done" /\ reqs[r].resp = 500
  /\ \E r \in Reqs : reqs[r].pc = "done" /\ reqs[r].resp = 200

\* C15: while the loader is constructing the model, startup has completed
\* and the event loop is free, so a GET /ping can be served; and every
\* GET /ping served while the model was being constructed was answered 503.
C15_LoadingDoesNotBlockListener ==
  /\ loader = "constructing" => (started /\ loop = 0)
  /\ (loader = "constructing" /\ Len(pings) < MaxPings) => ENABLED Ping
  /\ \A i \in 1..Len(pings) : pings[i].loading => pings[i].code = 503

C15_Witness ==
  /\ loader = "constructing"
  /\ \E i \in 1..Len(pings) : pings[i].loading /\ pings[i].code = 503

\* C16: the release of a temporary path removes the file if it exists, does
\* not raise if the file was never created or is already removed, leaves
\* the other files alone, and done twice leaves the disk as done once.
C16_IdempotentRelease ==
  \A p \in Paths :
    LET once == Release(disk, p)
        twice == Release(once.disk, p)
    IN /\ ~once.raised
       /\ ~twice.raised
       /\ once.disk[p] = 0
       /\ \A q \in Paths \ {p} : once.disk[q] = disk[q]
       /\ twice.disk = once.disk

C16_Witness ==
  \E r \in Reqs :
    /\ reqs[r].pc = "ffmpeg"
    /\ disk[reqs[r].path] = r
    /\ disk[reqs[r].wav] = 0

\* The text a model result stands for: a list of text objects joined with
\* spaces, a list of strings unwrapped, an empty or missing result empty.
ResultText(result) ==
  IF result.kind \in {"emptylist", "None"} THEN <<>>
  ELSE IF result.kind = "texts" THEN JoinSpace(result.v)
  ELSE result.v[1]

\* C17: the body of a 200 response is the text of the model's result with
\* leading and trailing whitespace removed.
C17_BodyIsTrimmedOutput ==
  \A r \in Reqs :
    (reqs[r].pc = "done" /\ reqs[r].resp = 200) =>
      reqs[r].body = <<Strip(ResultText(reqs[r].result))>>

\* The same, of /transcribe alone.
C17_TranscribeBodyIsTrimmed ==
  service = "stt" => C17_BodyIsTrimmedOutput

\* The order of the positions of a request: Received, Gated, Staged,
\* Dispatched, terminal.
Rank(pc) ==
  CASE pc = "new" -> 0
    [] pc = "staging" -> 1
    [] pc \in {"converting", "ffmpeg"} -> 2
    [] pc \in {"recognizing", "converted", "raised"} -> 3
    [] pc = "done" -> 4

\* C18: every request whose handling has begun reaches the terminal state,
\* it only moves forward, it ends with exactly one response (200, 400, 500
\* or 503), and nothing of it changes afterwards.
C18_EveryRequestTerminatesOnce ==
  /\ \A r \in Reqs : (reqs[r].pc # "new") ~> (reqs[r].pc = "done")
  /\ [][ \A r \in Reqs :
           /\ Rank(reqs'[r].pc) >= Rank(reqs[r].pc)
           /\ reqs[r].pc = "done" => reqs'[r] = reqs[r]
           /\ reqs'[r].pc # "done" => (reqs'[r].responses = 0 /\ reqs'[r].resp = 0)
           /\ reqs'[r].pc = "done" =>
                (reqs'[r].responses = 1 /\ reqs'[r].resp \in {200, 400, 500, 503})
       ]_vars

C18_Witness ==
  /\ \A r \in Reqs : reqs[r].pc = "done"
  /\ \E r \in Reqs : reqs[r].resp = 200
  /\ \E r \in Reqs : reqs[r].resp # 200

\* C19: while a request's ffmpeg or model call is executing, the temporary
\* file passed to it exists on disk and is the request's own: the staged
\* PDF during converter.convert, the staged upload during ffmpeg, the
\* converted .wav (and the upload) during model.recognize.
C19_StagedFileOutlivesCall ==
  \A r \in Reqs :
    /\ reqs[r].pc \in {"converting", "ffmpeg"} =>
         (reqs[r].path # 0 /\ disk[reqs[r].path] = r)
    /\ reqs[r].pc = "recognizing" =>
         /\ reqs[r].wav # 0 /\ disk[reqs[r].wav] = r
         /\ reqs[r].path # 0 /\ disk[reqs[r].path] = r

C19_Witness ==
  /\ \E r \in Reqs : reqs[r].pc = "converting" /\ disk[reqs[r].path] = r
  /\ \E q \in Reqs : reqs[q].pc = "done" /\ reqs[q].resp = 200

\* C20: in every state GET /ping would answer 200 exactly when a POST
\* arriving in that state would pass the gate.
C20_GateChecksAgree ==
  (PingCode = 200) <=> GateOpen

C20_Witness ==
  /\ PingCode = 200
  /\ GateOpen
  /\ \E i \in 1..Len(pings) : pings[i].code = 200
  /\ \E i \in 1..Len(pings) : pings[i].code = 503
  /\ \E r \in Reqs : reqs[r].gate = "open"
  /\ \E r \in Reqs : reqs[r].gate = "closed"

====
